---------------------------- MODULE Spec2Model ----------------------------
(***************************************************************************)
(* SilentMatch: OPRF blind matching with key rotation and versioned        *)
(* ledgers.  The module models                                             *)
(*   - crypto_engine.py : OPRFMath (map_string_to_group, mod_pow,          *)
(*                        mod_inverse)                                     *)
(*   - client.py        : BankSecurityModule (blinding factor,             *)
(*                        normalize_input, process_ingestion,              *)
(*                        process_verification)                            *)
(*   - server.py        : KeyManager, ClientManager, SilentMatchNode       *)
(* Strings are sequences of one-character strings, so that lower(),        *)
(* strip(), replace() and re.sub() are computed character by character.    *)
(***************************************************************************)
EXTENDS Integers, Sequences, FiniteSets, TLC

(***************************************************************************)
(* config.py                                                               *)
(***************************************************************************)
\* The modulus.  config.py holds the 1536-bit MODP safe prime (p = 2q + 1,
\* q prime); the model keeps the structure with the safe prime 11 = 2*5 + 1.
PRIME_MODULUS == 11

phi == PRIME_MODULUS - 1

(***************************************************************************)
(* Bounds of the model                                                     *)
(***************************************************************************)
\* longest raw attribute value drawn in the normalisation specification
MaxLen == 3

\* rotations stop when current_version reaches MaxVersion
MaxVersion == 2

\* process_ingestion / process_verification calls started in one behaviour
MaxRuns == 2

(***************************************************************************)
(* Python strings                                                          *)
(***************************************************************************)
None == <<"None">>

Falsy(value) == value = None \/ value = <<>>

Whitespace == {" ", "\t"}

Digit == {"0", "1", "2", "3", "4", "5", "6", "7", "8", "9"}

LowerChar(c) ==
    CASE c = "A" -> "a"
      [] c = "B" -> "b"
      [] OTHER   -> c

\* str.lower()
Lower(s) == [i \in 1..Len(s) |-> LowerChar(s[i])]

RECURSIVE LStrip(_)
LStrip(s) ==
    IF s # <<>> /\ Head(s) \in Whitespace THEN LStrip(Tail(s)) ELSE s

RECURSIVE RStrip(_)
RStrip(s) ==
    IF s # <<>> /\ s[Len(s)] \in Whitespace
    THEN RStrip(SubSeq(s, 1, Len(s) - 1))
    ELSE s

\* str.strip()
Strip(s) == RStrip(LStrip(s))

IsNotSpace(c) == c # " "

\* str.replace(" ", "")
ReplaceSpace(s) == SelectSeq(s, IsNotSpace)

IsDigit(c) == c \in Digit

\* re.sub(r'\D', '', value)
SubNonDigit(s) == SelectSeq(s, IsDigit)

\* re.sub(r'\s+', ' ', value)
RECURSIVE SubWhitespaceRuns(_)
SubWhitespaceRuns(s) ==
    IF s = <<>> THEN <<>>
    ELSE IF Head(s) \in Whitespace
         THEN <<" ">> \o SubWhitespaceRuns(LStrip(s))
         ELSE <<Head(s)>> \o SubWhitespaceRuns(Tail(s))

HexChar ==
    <<"0", "1", "2", "3", "4", "5", "6", "7",
      "8", "9", "a", "b", "c", "d", "e", "f">>

\* hex(n)[2:]
RECURSIVE Hex(_)
Hex(n) ==
    IF n < 16 THEN <<HexChar[n + 1]>>
    ELSE Hex(n \div 16) \o <<HexChar[(n % 16) + 1]>>

(***************************************************************************)
(* client.py: normalize_input                                              *)
(***************************************************************************)
WATCHED_FIELDS == <<"email", "phone", "sin", "name">>

Kinds == {WATCHED_FIELDS[i] : i \in 1..Len(WATCHED_FIELDS)}

\* the characters of a data_type, as f"{data_type}:" writes them
KindText(data_type) ==
    CASE data_type = "email" -> <<"e", "m", "a", "i", "l">>
      [] data_type = "phone" -> <<"p", "h", "o", "n", "e">>
      [] data_type = "sin"   -> <<"s", "i", "n">>
      [] data_type = "nas"   -> <<"n", "a", "s">>
      [] data_type = "name"  -> <<"n", "a", "m", "e">>

\* the per-kind rule applied to the lowered, stripped value
Clean(data_type, value) ==
    CASE data_type = "email" -> ReplaceSpace(value)
      [] data_type = "phone" -> SubNonDigit(value)
      [] data_type \in {"sin", "nas"} -> SubNonDigit(value)
      [] data_type = "name"  -> SubWhitespaceRuns(value)
      [] OTHER -> value

\* a plausible slip: the phone branch is missed and falls to the else branch
normalize_input_phone_fallthrough(data_type, value) ==
    IF Falsy(value) THEN None
    ELSE KindText(data_type) \o <<":">> \o
         (IF data_type = "phone" THEN Strip(Lower(value))
          ELSE Clean(data_type, Strip(Lower(value))))

\* a plausible slip: the kind tag is left out of the result
normalize_input_no_tag(data_type, value) ==
    IF Falsy(value) THEN None
    ELSE Clean(data_type, Strip(Lower(value)))

normalize_input(data_type, value) ==
    IF Falsy(value) THEN None
    ELSE KindText(data_type) \o <<":">> \o Clean(data_type, Strip(Lower(value)))

\* the canonical value of a NormalizedAttribute: what follows the kind tag
Canonical(data_type, normalized) ==
    SubSeq(normalized, Len(KindText(data_type)) + 2, Len(normalized))

(***************************************************************************)
(* crypto_engine.py: OPRFMath                                              *)
(***************************************************************************)
\* clean_text = text.strip().lower().replace(" ", "")
CleanText(text) == ReplaceSpace(Lower(Strip(text)))

\* The strings whose digest the model tabulates.  SHA-256 is modelled as an
\* injective map of these strings into [2, PRIME_MODULUS): collision
\* resistant, and every digest a reduced residue (the digest space is smaller
\* than the modulus).
HashPreimages ==
    << <<"e", "m", "a", "i", "l", ":", "a", "b">>,
       <<"n", "a", "m", "e", ":", "a", "b">>,
       <<"e", "m", "a", "i", "l", ":">>,
       <<"p", "h", "o", "n", "e", ":", "1">>,
       <<"s", "i", "n", ":", "1">> >>

InHashTable(clean_text) ==
    \E i \in 1..Len(HashPreimages) : HashPreimages[i] = clean_text

\* int(hashlib.sha256(clean_text.encode()).hexdigest(), 16)
Sha256Int(clean_text) ==
    1 + (CHOOSE i \in 1..Len(HashPreimages) : HashPreimages[i] = clean_text)

map_string_to_group(text) == Sha256Int(CleanText(text))

\* pow(b, e, m) by square and multiply
RECURSIVE ModExp(_, _, _)
ModExp(b, e, m) ==
    IF e = 0 THEN 1 % m
    ELSE LET h == ModExp(b, e \div 2, m)
         IN  IF e % 2 = 0 THEN (h * h) % m ELSE (((h * h) % m) * (b % m)) % m

mod_pow(base, exponent) == ModExp(base, exponent, PRIME_MODULUS)

\* the confusion of the two inverses: the inverse modulo p, not modulo p - 1
mod_inverse_mod_p(value) ==
    CHOOSE i \in 0..(PRIME_MODULUS - 1) : (value * i) % PRIME_MODULUS = 1

\* pow(value, -1, PRIME_MODULUS - 1)
mod_inverse(value) ==
    CHOOSE i \in 0..(phi - 1) : (value * i) % phi = 1

(***************************************************************************)
(* client.py: the blinding factor                                          *)
(***************************************************************************)
RECURSIVE GCD(_, _)
GCD(a, b) == IF b = 0 THEN a ELSE GCD(b, a % b)

\* the values _generate_valid_blinding_factor can return
BlindingFactors == {r \in 0..(phi - 1) : r > 1 /\ GCD(r, phi) = 1}

(***************************************************************************)
(* State                                                                   *)
(***************************************************************************)
VARIABLES
    current_version,  \* KeyManager.current_version
    keys,             \* KeyManager._keys: version -> secret
    keysFile,         \* data/server_keys.json
    clients,          \* ClientManager.clients: api key -> record
    clientsFile,      \* data/authorized_clients.json
    ledger,           \* SilentMatchNode._ledger: signature -> entry
    ledgerFiles,      \* data/ledgers/v<n>.json: version -> ledger
    modules,          \* the BankSecurityModule instances
    pc,               \* where each call is: process_ingestion/_verification, rotate_server
    job,              \* the locals of the call an instance is in
    runs,             \* process_* calls started so far
    ingestLog,        \* history: what register_incident_batch has been given
    oprf,             \* one blind/sign/unblind exchange (SpecMath)
    nrm               \* one normalisation (SpecNorm)

nodeVars == <<current_version, keys, keysFile, clients, clientsFile,
              ledger, ledgerFiles>>

clientVars == <<modules, pc, job, runs, ingestLog>>

vars == <<current_version, keys, keysFile, clients, clientsFile, ledger,
          ledgerFiles, modules, pc, job, runs, ingestLog, oprf, nrm>>

EmptyDict == <<>>

\* d[k] = v
Put(d, k, v) == (k :> v) @@ d

\* the BankSecurityModule instances, and the api key each is constructed with
Session == {"s1", "s2"}

ApiKeyOf(s) == IF s = "s1" THEN "k1" ELSE "k2"

\* what runs: the module instances, and the node's own rotate_server call
Thread == Session \cup {"node"}

OprfParked == oprf = [stage |-> "none"]

NrmParked == nrm = [stage |-> "none"]

\* the node and the clients at rest, for the specifications of the pure
\* functions
SystemParked ==
    /\ current_version = 1
    /\ keys = (1 :> 1)
    /\ keysFile = [current_version |-> 1, keys |-> (1 :> 1)]
    /\ clients = EmptyDict
    /\ clientsFile = EmptyDict
    /\ ledger = EmptyDict
    /\ ledgerFiles = (1 :> EmptyDict)
    /\ modules = [s \in Session |->
                     [api_key |-> ApiKeyOf(s), blinding_factor |-> 3]]
    /\ pc = [t \in Thread |-> "idle"]
    /\ job = [s \in Session |-> [call |-> "none"]]
    /\ runs = 0
    /\ ingestLog = {}

(***************************************************************************)
(* SpecMath: the exchange Normalized -> Blinded -> Signed -> Unblinded of  *)
(* process_ingestion / process_verification and sign_blinded_request, for  *)
(* every field element, blinding factor and secret                         *)
(***************************************************************************)
MathInit ==
    /\ oprf \in {[stage |-> "mapped", x |-> x, r |-> r, k |-> k, val |-> x] :
                    x \in 0..(PRIME_MODULUS - 1),
                    r \in BlindingFactors,
                    k \in 0..(phi - 1)}
    /\ NrmParked
    /\ SystemParked

\* blinded_val = OPRFMath.mod_pow(<field element>, self._blinding_factor)
Blind ==
    /\ oprf.stage = "mapped"
    /\ oprf' = [oprf EXCEPT !.stage = "blinded",
                            !.val = mod_pow(oprf.val, oprf.r)]
    /\ UNCHANGED <<nodeVars, clientVars, nrm>>

\* signed_val = OPRFMath.mod_pow(blinded_val_int, key)
Sign ==
    /\ oprf.stage = "blinded"
    /\ oprf' = [oprf EXCEPT !.stage = "signed",
                            !.val = mod_pow(oprf.val, oprf.k)]
    /\ UNCHANGED <<nodeVars, clientVars, nrm>>

\* inv_r = OPRFMath.mod_inverse(self._blinding_factor);
\* OPRFMath.mod_pow(signed_val, inv_r)
Unblind ==
    /\ oprf.stage = "signed"
    /\ oprf' = [oprf EXCEPT !.stage = "unblinded",
                            !.val = mod_pow(oprf.val, mod_inverse(oprf.r))]
    /\ UNCHANGED <<nodeVars, clientVars, nrm>>

MathNext == Blind \/ Sign \/ Unblind

SpecMath == MathInit /\ [][MathNext]_vars

(***************************************************************************)
(* SpecNorm: normalize_input and map_string_to_group's cleaning, for every *)
(* pair of kinds and every raw value up to MaxLen characters               *)
(***************************************************************************)
Alphabet == {"a", "B", "1", "-", ":", " ", "\t"}

RawValues ==
    {None} \cup UNION {[1..n -> Alphabet] : n \in 0..MaxLen}

NormInit ==
    /\ nrm \in {[stage |-> "raw", kind |-> k, kind2 |-> k2, raw |-> v] :
                    k \in Kinds, k2 \in Kinds, v \in RawValues}
    /\ OprfParked
    /\ SystemParked

\* clean_val = self.normalize_input(field, record[field]), under both kinds
Normalize ==
    /\ nrm.stage = "raw"
    /\ nrm' = [stage |-> "normalized", kind |-> nrm.kind, kind2 |-> nrm.kind2,
               raw |-> nrm.raw,
               once  |-> normalize_input(nrm.kind, nrm.raw),
               once2 |-> normalize_input(nrm.kind2, nrm.raw)]
    /\ UNCHANGED <<nodeVars, clientVars, oprf>>

\* normalize_input applied to its own result, and to the canonical value of
\* its result
Renormalize ==
    /\ nrm.stage = "normalized"
    /\ nrm' = [stage |-> "renormalized", kind |-> nrm.kind, raw |-> nrm.raw,
               once |-> nrm.once,
               twice |-> normalize_input(nrm.kind, nrm.once),
               recanon |-> IF nrm.once = None THEN None
                           ELSE normalize_input(nrm.kind,
                                    Canonical(nrm.kind, nrm.once))]
    /\ UNCHANGED <<nodeVars, clientVars, oprf>>

\* the string map_string_to_group hands to the hash, for both kinds
CleanForHash ==
    /\ nrm.stage = "normalized"
    /\ nrm.once # None
    /\ nrm' = [stage |-> "cleaned", kind |-> nrm.kind, kind2 |-> nrm.kind2,
               raw |-> nrm.raw, once |-> nrm.once, once2 |-> nrm.once2,
               pre  |-> CleanText(nrm.once),
               pre2 |-> CleanText(nrm.once2)]
    /\ UNCHANGED <<nodeVars, clientVars, oprf>>

NormNext == Normalize \/ Renormalize \/ CleanForHash

SpecNorm == NormInit /\ [][NormNext]_vars

(***************************************************************************)
(* SpecPairs: normalize_input followed by map_string_to_group's cleaning,  *)
(* for every pair of raw values up to MaxLen characters and every pair of  *)
(* kinds                                                                   *)
(***************************************************************************)
PairAlphabet == {"a", "B", " "}

PairValues == UNION {[1..n -> PairAlphabet] : n \in 0..MaxLen}

PairInit ==
    /\ nrm \in {[stage |-> "pair", kind |-> k, kind2 |-> k2,
                 raw |-> v, raw2 |-> v2] :
                    k \in Kinds, k2 \in Kinds,
                    v \in PairValues, v2 \in PairValues}
    /\ OprfParked
    /\ SystemParked

\* clean_val = self.normalize_input(field, record[field]), for each of the
\* two values
NormalizePair ==
    /\ nrm.stage = "pair"
    /\ nrm' = [stage |-> "pair_normalized", kind |-> nrm.kind,
               kind2 |-> nrm.kind2, raw |-> nrm.raw, raw2 |-> nrm.raw2,
               once  |-> normalize_input(nrm.kind, nrm.raw),
               once2 |-> normalize_input(nrm.kind2, nrm.raw2)]
    /\ UNCHANGED <<nodeVars, clientVars, oprf>>

\* the string map_string_to_group hands to the hash, for each of the two
\* NormalizedAttributes
CleanPairForHash ==
    /\ nrm.stage = "pair_normalized"
    /\ nrm.once # None
    /\ nrm.once2 # None
    /\ nrm' = [stage |-> "pair_cleaned", kind |-> nrm.kind,
               kind2 |-> nrm.kind2, raw |-> nrm.raw, raw2 |-> nrm.raw2,
               once |-> nrm.once, once2 |-> nrm.once2,
               pre  |-> CleanText(nrm.once),
               pre2 |-> CleanText(nrm.once2)]
    /\ UNCHANGED <<nodeVars, clientVars, oprf>>

PairNext == NormalizePair \/ CleanPairForHash

SpecPairs == PairInit /\ [][PairNext]_vars

(***************************************************************************)
(* server.py: KeyManager                                                   *)
(***************************************************************************)
\* secrets.randbelow(PRIME_MODULUS - 1) returns a value of 0..phi-1.  The
\* model draws from representatives of that range: 0 (its lowest value)
\* and 3 (a unit modulo phi, so that x -> x^3 is one-to-one).
SecretDraws == {k \in 0..(phi - 1) : k \in {0, 3}}

get_key(version) == keys[version]

\* a plausible slip: the key map is replaced, not extended, so the secrets
\* of the earlier versions are gone
KeyManager_rotate_forgets ==
    \E secret \in SecretDraws :
        /\ current_version' = current_version + 1
        /\ keys' = (current_version + 1 :> secret)
        /\ keysFile' = [current_version |-> current_version', keys |-> keys']

\* KeyManager.rotate with save_keys
KeyManager_rotate ==
    \E secret \in SecretDraws :
        /\ current_version' = current_version + 1
        /\ keys' = Put(keys, current_version + 1, secret)
        /\ keysFile' = [current_version |-> current_version', keys |-> keys']

(***************************************************************************)
(* server.py: ClientManager                                                *)
(***************************************************************************)
\* the values secrets.token_hex(16) is drawn from; a draw never repeats
ApiKeys == {"k1", "k2"}

BankNames == {"BANK"}

\* ClientManager.create_api_key
create_api_key(bank_name) ==
    \E api_key \in ApiKeys \ DOMAIN clients :
        /\ clients' = Put(clients, api_key,
                          [name |-> bank_name, last_sync_version |-> 0])
        /\ clientsFile' = clients'
        /\ UNCHANGED <<current_version, keys, keysFile, ledger, ledgerFiles>>
        /\ UNCHANGED <<clientVars, oprf, nrm>>

\* ClientManager.update_sync_status: the clients dict afterwards
update_sync_status(api_key, key_version) ==
    IF api_key \in DOMAIN clients
    THEN [clients EXCEPT ![api_key].last_sync_version = key_version]
    ELSE clients

\* a plausible slip: the comparison is <= instead of <
check_health_le(api_key, current_server_version) ==
    IF api_key \notin DOMAIN clients THEN "ERROR"
    ELSE IF clients[api_key].last_sync_version <= current_server_version
         THEN "OUTDATED"
         ELSE "OK"

\* a plausible slip: an unknown key is answered like a client that is behind
check_health_unknown_outdated(api_key, current_server_version) ==
    IF api_key \notin DOMAIN clients THEN "OUTDATED"
    ELSE IF clients[api_key].last_sync_version < current_server_version
         THEN "OUTDATED"
         ELSE "OK"

\* ClientManager.check_health: the "status" of the answer
check_health(api_key, current_server_version) ==
    IF api_key \notin DOMAIN clients THEN "ERROR"
    ELSE IF clients[api_key].last_sync_version < current_server_version
         THEN "OUTDATED"
         ELSE "OK"

(***************************************************************************)
(* server.py: SilentMatchNode                                              *)
(***************************************************************************)
\* a plausible slip: the in-memory ledger is not emptied, so the entries of
\* the old version are carried into the new one
rotate_server_keeps_ledger ==
    /\ current_version < MaxVersion
    /\ KeyManager_rotate
    /\ ledger' = ledger
    /\ ledgerFiles' = Put(ledgerFiles, current_version', ledger')
    /\ UNCHANGED <<clients, clientsFile, clientVars, oprf, nrm>>

\* SilentMatchNode.rotate_server: kms.rotate(), empty ledger, save_db()
rotate_server ==
    /\ current_version < MaxVersion
    /\ KeyManager_rotate
    /\ ledger' = EmptyDict
    /\ ledgerFiles' = Put(ledgerFiles, current_version', ledger')
    /\ UNCHANGED <<clients, clientsFile, clientVars, oprf, nrm>>

authenticate(api_key) == check_health(api_key, current_version)

\* a plausible slip: the key of the first version is used for every version
sign_blinded_request_first_key(blinded_val_int) ==
    <<mod_pow(blinded_val_int, get_key(1)), current_version>>

\* SilentMatchNode.sign_blinded_request: <<signed_val, current_v>>
sign_blinded_request(blinded_val_int) ==
    LET current_v == current_version
        key       == get_key(current_v)
    IN  <<mod_pow(blinded_val_int, key), current_v>>

\* a plausible slip: the ledger is replaced by the batch, not updated with it
StoreBatch_replaces(led, batch_data) ==
    [sig \in {batch_data[i].signature : i \in 1..Len(batch_data)} |->
        LET last == CHOOSE i \in 1..Len(batch_data) :
                        /\ batch_data[i].signature = sig
                        /\ \A j \in (i + 1)..Len(batch_data) :
                              batch_data[j].signature # sig
        IN  [risk |-> batch_data[last].risk, role |-> batch_data[last].role,
             key_version |-> batch_data[last].key_version]]

\* the loop of register_incident_batch: later items overwrite earlier ones
RECURSIVE StoreBatch(_, _)
StoreBatch(led, batch_data) ==
    IF batch_data = <<>> THEN led
    ELSE LET item == Head(batch_data)
         IN  StoreBatch(Put(led, item.signature,
                            [risk |-> item.risk, role |-> item.role,
                             key_version |-> item.key_version]),
                        Tail(batch_data))

\* a plausible slip: the sync version is taken from the batch (the version
\* its last item was signed under), not from the key manager
register_incident_batch_item_version(api_key, batch_data) ==
    /\ ledger' = StoreBatch(ledger, batch_data)
    /\ ledgerFiles' = Put(ledgerFiles, current_version, ledger')
    /\ clients' = update_sync_status(api_key,
                      IF batch_data = <<>> THEN current_version
                      ELSE batch_data[Len(batch_data)].key_version)
    /\ clientsFile' = IF api_key \in DOMAIN clients THEN clients'
                      ELSE clientsFile
    /\ UNCHANGED <<current_version, keys, keysFile>>

\* SilentMatchNode.register_incident_batch, with save_db and save_clients
register_incident_batch(api_key, batch_data) ==
    /\ ledger' = StoreBatch(ledger, batch_data)
    /\ ledgerFiles' = Put(ledgerFiles, current_version, ledger')
    /\ clients' = update_sync_status(api_key, current_version)
    /\ clientsFile' = IF api_key \in DOMAIN clients THEN clients'
                      ELSE clientsFile
    /\ UNCHANGED <<current_version, keys, keysFile>>

Range(seq) == {seq[i] : i \in 1..Len(seq)}

\* SilentMatchNode.check_status_batch: signature -> result
check_status_batch(signatures) ==
    [sig \in Range(signatures) |->
        IF sig \in DOMAIN ledger
        THEN [status |-> "FOUND", data |-> ledger[sig]]
        ELSE [status |-> "CLEAN"]]

(***************************************************************************)
(* The input files (data/input_fraudsters.json, input_verification.json)   *)
(***************************************************************************)
Record(email, phone, sin, name) ==
    [email |-> email, phone |-> phone, sin |-> sin, name |-> name]

\* {email: "ab", risk: MONEY_LAUNDERING, role: PERPETRATOR}
FraudEmail ==
    Record(<<"a", "b">>, None, None, None) @@
    [risk |-> "MONEY_LAUNDERING", role |-> "PERPETRATOR"]

\* {name: "a b", risk: IDENTITY_THEFT, role: VICTIM}
FraudName ==
    Record(None, None, None, <<"a", " ", "b">>) @@
    [risk |-> "IDENTITY_THEFT", role |-> "VICTIM"]

\* {email: " ", risk: CREDIT_DEFAULT, role: PERPETRATOR}
FraudBlank ==
    Record(<<" ">>, None, None, None) @@
    [risk |-> "CREDIT_DEFAULT", role |-> "PERPETRATOR"]

FraudFiles == {<<FraudEmail>>, <<FraudName>>, <<FraudBlank>>}

\* {id: "A1", email: "Ab"}
ApplicantEmail ==
    Record(<<"A", "b">>, None, None, None) @@ [id |-> <<"A", "1">>]

\* {id: "A2", name: "ab"}
ApplicantName ==
    Record(None, None, None, <<"a", "b">>) @@ [id |-> <<"A", "2">>]

\* {id: "A3", email: "  "}
ApplicantBlank ==
    Record(<<" ", " ">>, None, None, None) @@ [id |-> <<"A", "3">>]

CheckFiles == {<<ApplicantEmail>>, <<ApplicantName>>, <<ApplicantBlank>>}

\* {id: "A4", email: "ab"}: the same email as ApplicantEmail's
ApplicantTwin ==
    Record(<<"a", "b">>, None, None, None) @@ [id |-> <<"A", "4">>]

\* {email: "ab"}: a record with no id (None stands for the missing key)
ApplicantNoId ==
    Record(<<"a", "b">>, None, None, None) @@ [id |-> None]

ReportFiles == {<<ApplicantEmail, ApplicantTwin>>, <<ApplicantNoId>>}

(***************************************************************************)
(* client.py: BankSecurityModule                                           *)
(***************************************************************************)
\* BankSecurityModule(api_key): the instances after __init__, which draws
\* the blinding factor once
BankSecurityModule ==
    {[api_key |-> api_key, blinding_factor |-> r] :
        api_key \in ApiKeys, r \in BlindingFactors}

IsWatched(record, field) == ~Falsy(record[field])

\* the (record, field) pairs the two nested loops reach:
\* "if field in record and record[field]"
RECURSIVE Worklist(_, _)
Worklist(data, i) ==
    IF i > Len(data) THEN <<>>
    ELSE LET fields == SelectSeq(WATCHED_FIELDS,
                                 LAMBDA f : IsWatched(data[i], f))
         IN  [n \in 1..Len(fields) |-> [index |-> i, field |-> fields[n]]]
             \o Worklist(data, i + 1)

\* a plausible slip: the signed value is rendered without being unblinded
SecureAttribute_no_unblind(field, value, blinding_factor) ==
    LET clean_val   == normalize_input(field, value)
        blinded_val == mod_pow(map_string_to_group(clean_val), blinding_factor)
        signed      == sign_blinded_request(blinded_val)
    IN  [signature |-> Hex(signed[1]), key_version |-> signed[2],
         attr |-> clean_val]

\* normalisation and the OPRF flow for one attribute:
\* blind, sign_blinded_request, unblind, hex
SecureAttribute(field, value, blinding_factor) ==
    LET clean_val   == normalize_input(field, value)
        blinded_val == mod_pow(map_string_to_group(clean_val), blinding_factor)
        signed      == sign_blinded_request(blinded_val)
        inv_r       == mod_inverse(blinding_factor)
        final_sig   == Hex(mod_pow(signed[1], inv_r))
    IN  [signature |-> final_sig, key_version |-> signed[2], attr |-> clean_val]

\* process_ingestion up to the loop: authenticate, read the file
\* (found: whether open(json_file_path) finds the file)
process_ingestion_begin(s, raw_data, found) ==
    /\ pc[s] = "idle"
    /\ runs < MaxRuns
    /\ runs' = runs + 1
    /\ IF authenticate(modules[s].api_key) = "ERROR" \/ ~found
       THEN UNCHANGED <<pc, job>>
       ELSE /\ pc' = [pc EXCEPT ![s] = "ingest"]
            /\ job' = [job EXCEPT ![s] =
                          [call |-> "ingest", data |-> raw_data,
                           work |-> Worklist(raw_data, 1),
                           data_to_finalize |-> <<>>]]
    /\ UNCHANGED <<nodeVars, modules, ingestLog, oprf, nrm>>

\* one pass of the loop body of process_ingestion
process_ingestion_sign(s) ==
    /\ pc[s] = "ingest"
    /\ job[s].work # <<>>
    /\ LET at     == Head(job[s].work)
           record == job[s].data[at.index]
           sec    == SecureAttribute(at.field, record[at.field],
                                     modules[s].blinding_factor)
       IN  job' = [job EXCEPT
                      ![s].work = Tail(@),
                      ![s].data_to_finalize = Append(@,
                          [signature |-> sec.signature,
                           risk |-> record.risk,
                           role |-> record.role,
                           key_version |-> sec.key_version,
                           attr |-> sec.attr])]
    /\ UNCHANGED <<nodeVars, modules, pc, runs, ingestLog, oprf, nrm>>

\* server_node.register_incident_batch(self.api_key, data_to_finalize)
process_ingestion_register(s) ==
    /\ pc[s] = "ingest"
    /\ job[s].work = <<>>
    /\ register_incident_batch(modules[s].api_key, job[s].data_to_finalize)
    /\ ingestLog' = ingestLog \cup
           {[attr |-> e.attr, key_version |-> e.key_version,
             risk |-> e.risk, role |-> e.role,
             ledger |-> current_version] :
                e \in Range(job[s].data_to_finalize)}
    /\ pc' = [pc EXCEPT ![s] = "idle"]
    /\ job' = [job EXCEPT ![s] = [call |-> "none"]]
    /\ UNCHANGED <<modules, runs, oprf, nrm>>

\* app.get("id", "UNKNOWN")
UNKNOWN == <<"U", "N", "K", "N", "O", "W", "N">>

AppId(app) == IF app.id = None THEN UNKNOWN ELSE app.id

\* process_verification up to the loop: _check_server_health (its answer is
\* not used), read the file
process_verification_begin(s, applicants, found) ==
    /\ pc[s] = "idle"
    /\ runs < MaxRuns
    /\ runs' = runs + 1
    /\ IF ~found
       THEN UNCHANGED <<pc, job>>
       ELSE /\ pc' = [pc EXCEPT ![s] = "verify"]
            /\ job' = [job EXCEPT ![s] =
                          [call |-> "verify", data |-> applicants,
                           work |-> Worklist(applicants, 1),
                           signatures_to_check |-> <<>>,
                           sig_lookup |-> EmptyDict,
                           trail |-> <<>>]]
    /\ UNCHANGED <<nodeVars, modules, ingestLog, oprf, nrm>>

\* one pass of the loop body of process_verification; trail keeps, for each
\* signature, the attribute it was made from and the version the server
\* answered (which the code drops)
process_verification_sign(s) ==
    /\ pc[s] = "verify"
    /\ job[s].work # <<>>
    /\ LET at  == Head(job[s].work)
           app == job[s].data[at.index]
           sec == SecureAttribute(at.field, app[at.field],
                                  modules[s].blinding_factor)
       IN  job' = [job EXCEPT
                      ![s].work = Tail(@),
                      ![s].signatures_to_check = Append(@, sec.signature),
                      ![s].sig_lookup = Put(@, sec.signature,
                          [app_id |-> AppId(app), field |-> at.field,
                           value |-> app[at.field]]),
                      ![s].trail = Append(@,
                          [attr |-> sec.attr,
                           key_version |-> sec.key_version])]
    /\ UNCHANGED <<nodeVars, modules, pc, runs, ingestLog, oprf, nrm>>

\* the keys of a dict in insertion order
RECURSIVE FirstOccurrences(_, _)
FirstOccurrences(seq, seen) ==
    IF seq = <<>> THEN <<>>
    ELSE IF Head(seq) \in seen
         THEN FirstOccurrences(Tail(seq), seen)
         ELSE <<Head(seq)>> \o
              FirstOccurrences(Tail(seq), seen \cup {Head(seq)})

\* "for sig, res in results.items()": alerts_by_app
RECURSIVE AlertsByApp(_, _, _, _)
AlertsByApp(order, results, sig_lookup, alerts_by_app) ==
    IF order = <<>> THEN alerts_by_app
    ELSE LET sig == Head(order)
             res == results[sig]
         IN  IF res.status = "FOUND"
             THEN LET info   == sig_lookup[sig]
                      app_id == info.app_id
                      before == IF app_id \in DOMAIN alerts_by_app
                                THEN alerts_by_app[app_id]
                                ELSE <<>>
                  IN  AlertsByApp(Tail(order), results, sig_lookup,
                          Put(alerts_by_app, app_id,
                              Append(before,
                                     [field |-> info.field,
                                      risk |-> res.data.risk,
                                      role |-> res.data.role])))
             ELSE AlertsByApp(Tail(order), results, sig_lookup, alerts_by_app)

\* "for app in applicants": the [ALERT] / [PASS] lines
Printed(applicants, alerts_by_app) ==
    [i \in 1..Len(applicants) |->
        LET aid == applicants[i].id
        IN  IF aid \in DOMAIN alerts_by_app
            THEN [aid |-> aid, line |-> "ALERT", alerts |-> alerts_by_app[aid]]
            ELSE [aid |-> aid, line |-> "PASS", alerts |-> <<>>]]

\* server_node.check_status_batch(signatures_to_check) and the report
process_verification_check(s) ==
    /\ pc[s] = "verify"
    /\ job[s].work = <<>>
    /\ LET results == check_status_batch(job[s].signatures_to_check)
           alerts  == AlertsByApp(
                          FirstOccurrences(job[s].signatures_to_check, {}),
                          results, job[s].sig_lookup, EmptyDict)
       IN  job' = [job EXCEPT ![s] =
                      [call |-> "verified", data |-> job[s].data,
                       signatures_to_check |-> job[s].signatures_to_check,
                       sig_lookup |-> job[s].sig_lookup,
                       trail |-> job[s].trail,
                       results |-> results,
                       alerts_by_app |-> alerts,
                       printed |-> Printed(job[s].data, alerts)]]
    /\ pc' = [pc EXCEPT ![s] = "idle"]
    /\ UNCHANGED <<nodeVars, modules, runs, ingestLog, oprf, nrm>>

(***************************************************************************)
(* The node and the bank modules.  The node is constructed with no         *)
(* persisted key state (its first rotation made version 1); every server   *)
(* call is one step, and the steps of different modules and rotations      *)
(* interleave.                                                             *)
(***************************************************************************)
\* SilentMatchNode() and the BankSecurityModule instances, given the client
\* registry the node has loaded and the blinding factors the modules may draw
Constructed(registry, factors) ==
    /\ current_version = 1
    /\ keys \in {(1 :> secret) : secret \in SecretDraws}
    /\ keysFile = [current_version |-> current_version, keys |-> keys]
    /\ clients = registry
    /\ clientsFile = registry
    /\ ledger = EmptyDict
    /\ ledgerFiles = (1 :> EmptyDict)
    /\ modules \in {m \in [Session -> BankSecurityModule] :
                        \A s \in Session : /\ m[s].api_key = ApiKeyOf(s)
                                           /\ m[s].blinding_factor \in factors[s]}
    /\ pc = [t \in Thread |-> "idle"]
    /\ job = [s \in Session |-> [call |-> "none"]]
    /\ runs = 0
    /\ ingestLog = {}
    /\ OprfParked
    /\ NrmParked

\* the calls of the bank modules on the given input files, and rotation
Calls(fraud_files, check_files) ==
    \/ rotate_server
    \/ \E s \in Session, raw_data \in fraud_files, found \in BOOLEAN :
           process_ingestion_begin(s, raw_data, found)
    \/ \E s \in Session : process_ingestion_sign(s)
    \/ \E s \in Session : process_ingestion_register(s)
    \/ \E s \in Session, applicants \in check_files, found \in BOOLEAN :
           process_verification_begin(s, applicants, found)
    \/ \E s \in Session : process_verification_sign(s)
    \/ \E s \in Session : process_verification_check(s)

(***************************************************************************)
(* Spec: the protocol on every input file.  Both banks have been           *)
(* registered (create_api_key was called for each) and have not ingested   *)
(* yet; their modules have drawn two different blinding factors.           *)
(***************************************************************************)
Init ==
    Constructed([k \in ApiKeys |-> [name |-> "BANK", last_sync_version |-> 0]],
                [s \in Session |-> IF s = "s1" THEN {3} ELSE {7}])

Next == Calls(FraudFiles, CheckFiles)

Spec == Init /\ [][Next]_vars

(***************************************************************************)
(* SpecBanks: the banks.  No bank is registered at first and each module   *)
(* has drawn any blinding factor; create_api_key registers the banks       *)
(* while the modules make their calls on one fraud file and one            *)
(* verification file.                                                      *)
(***************************************************************************)
BanksInit == Constructed(EmptyDict, [s \in Session |-> BlindingFactors])

BanksNext ==
    \/ \E bank_name \in BankNames : create_api_key(bank_name)
    \/ Calls({<<FraudEmail>>}, {<<ApplicantEmail>>})

SpecBanks == BanksInit /\ [][BanksNext]_vars

(***************************************************************************)
(* SpecReport: the report of process_verification, on verification files   *)
(* with two applicants of the same email and with an applicant without id  *)
(***************************************************************************)
ReportInit == Init

ReportNext == Calls({<<FraudEmail>>}, ReportFiles)

SpecReport == ReportInit /\ [][ReportNext]_vars

(***************************************************************************)
(* SpecFaults: the calls with writes that fail.  A failing write is an     *)
(* open(path, 'w') that raises: the file keeps its content and the         *)
(* exception leaves the method (and the client call that made it) at that  *)
(* statement.                                                              *)
(***************************************************************************)
\* rotate_server when save_keys raises inside kms.rotate(): the two
\* assignments of rotate have been made, nothing after them is reached
rotate_server_save_keys_fails ==
    /\ current_version < MaxVersion
    /\ \E secret \in SecretDraws :
          /\ current_version' = current_version + 1
          /\ keys' = Put(keys, current_version + 1, secret)
    /\ UNCHANGED <<keysFile, ledger, ledgerFiles>>
    /\ UNCHANGED <<clients, clientsFile, clientVars, oprf, nrm>>

\* rotate_server when its save_db raises: the keys are rotated and saved,
\* the in-memory ledger is emptied, the new ledger file is not written
rotate_server_save_db_fails ==
    /\ current_version < MaxVersion
    /\ KeyManager_rotate
    /\ ledger' = EmptyDict
    /\ UNCHANGED <<ledgerFiles, clients, clientsFile, clientVars, oprf, nrm>>

\* create_api_key when save_clients raises
create_api_key_save_clients_fails(bank_name) ==
    \E api_key \in ApiKeys \ DOMAIN clients :
        /\ clients' = Put(clients, api_key,
                          [name |-> bank_name, last_sync_version |-> 0])
        /\ UNCHANGED <<clientsFile, current_version, keys, keysFile,
                       ledger, ledgerFiles>>
        /\ UNCHANGED <<clientVars, oprf, nrm>>

\* what process_ingestion's register call leaves at the client, however the
\* call ends
IngestionOver(s) ==
    /\ ingestLog' = ingestLog \cup
           {[attr |-> e.attr, key_version |-> e.key_version,
             risk |-> e.risk, role |-> e.role,
             ledger |-> current_version] :
                e \in Range(job[s].data_to_finalize)}
    /\ pc' = [pc EXCEPT ![s] = "idle"]
    /\ job' = [job EXCEPT ![s] = [call |-> "none"]]
    /\ UNCHANGED <<modules, runs, oprf, nrm>>

\* register_incident_batch when save_db raises: the items are in the
\* in-memory ledger, update_sync_status is not reached
process_ingestion_register_save_db_fails(s) ==
    /\ pc[s] = "ingest"
    /\ job[s].work = <<>>
    /\ ledger' = StoreBatch(ledger, job[s].data_to_finalize)
    /\ UNCHANGED <<ledgerFiles, clients, clientsFile,
                   current_version, keys, keysFile>>
    /\ IngestionOver(s)

\* register_incident_batch when save_clients raises in update_sync_status
process_ingestion_register_save_clients_fails(s) ==
    /\ pc[s] = "ingest"
    /\ job[s].work = <<>>
    /\ modules[s].api_key \in DOMAIN clients
    /\ ledger' = StoreBatch(ledger, job[s].data_to_finalize)
    /\ ledgerFiles' = Put(ledgerFiles, current_version, ledger')
    /\ clients' = update_sync_status(modules[s].api_key, current_version)
    /\ UNCHANGED <<clientsFile, current_version, keys, keysFile>>
    /\ IngestionOver(s)

FaultsInit ==
    Constructed(EmptyDict, [s \in Session |-> IF s = "s1" THEN {3} ELSE {7}])

FaultsNext ==
    \/ \E bank_name \in BankNames : create_api_key(bank_name)
    \/ Calls({<<FraudEmail>>}, {<<ApplicantEmail>>})
    \/ rotate_server_save_keys_fails
    \/ rotate_server_save_db_fails
    \/ \E bank_name \in BankNames : create_api_key_save_clients_fails(bank_name)
    \/ \E s \in Session : process_ingestion_register_save_db_fails(s)
    \/ \E s \in Session : process_ingestion_register_save_clients_fails(s)

SpecFaults == FaultsInit /\ [][FaultsNext]_vars

(***************************************************************************)
(* SpecRace: rotate_server running in a thread of its own, statement by    *)
(* statement, while the modules make their calls.  The code takes no lock. *)
(***************************************************************************)
\* KeyManager.rotate: self.current_version += 1
rotate_increment ==
    /\ pc["node"] = "idle"
    /\ current_version < MaxVersion
    /\ current_version' = current_version + 1
    /\ pc' = [pc EXCEPT !["node"] = "rotate_key"]
    /\ UNCHANGED <<keys, keysFile, clients, clientsFile, ledger, ledgerFiles>>
    /\ UNCHANGED <<modules, job, runs, ingestLog, oprf, nrm>>

\* KeyManager.rotate: self._keys[self.current_version] = ...; save_keys()
rotate_draw_key ==
    /\ pc["node"] = "rotate_key"
    /\ \E secret \in SecretDraws : keys' = Put(keys, current_version, secret)
    /\ keysFile' = [current_version |-> current_version, keys |-> keys']
    /\ pc' = [pc EXCEPT !["node"] = "rotate_ledger"]
    /\ UNCHANGED <<current_version, clients, clientsFile, ledger, ledgerFiles>>
    /\ UNCHANGED <<modules, job, runs, ingestLog, oprf, nrm>>

\* rotate_server: self._ledger = {}
rotate_empty_ledger ==
    /\ pc["node"] = "rotate_ledger"
    /\ ledger' = EmptyDict
    /\ pc' = [pc EXCEPT !["node"] = "rotate_save"]
    /\ UNCHANGED <<current_version, keys, keysFile, clients, clientsFile,
                   ledgerFiles>>
    /\ UNCHANGED <<modules, job, runs, ingestLog, oprf, nrm>>

\* rotate_server: self.save_db()
rotate_save_db ==
    /\ pc["node"] = "rotate_save"
    /\ ledgerFiles' = Put(ledgerFiles, current_version, ledger)
    /\ pc' = [pc EXCEPT !["node"] = "idle"]
    /\ UNCHANGED <<current_version, keys, keysFile, clients, clientsFile,
                   ledger>>
    /\ UNCHANGED <<modules, job, runs, ingestLog, oprf, nrm>>

\* sign_blinded_request while current_version has no secret yet: get_key
\* returns None and pow(blinded_val_int, None, PRIME_MODULUS) raises, which
\* ends the module's call
sign_blinded_request_no_key(s) ==
    /\ pc[s] \in {"ingest", "verify"}
    /\ job[s].work # <<>>
    /\ current_version \notin DOMAIN keys
    /\ pc' = [pc EXCEPT ![s] = "idle"]
    /\ job' = [job EXCEPT ![s] = [call |-> "none"]]
    /\ UNCHANGED <<nodeVars, modules, runs, ingestLog, oprf, nrm>>

RaceInit == Init

RaceNext ==
    \/ rotate_increment
    \/ rotate_draw_key
    \/ rotate_empty_ledger
    \/ rotate_save_db
    \/ \E s \in Session, found \in BOOLEAN :
           process_ingestion_begin(s, <<FraudEmail>>, found)
    \/ \E s \in Session :
           current_version \in DOMAIN keys /\ process_ingestion_sign(s)
    \/ \E s \in Session : process_ingestion_register(s)
    \/ \E s \in Session, found \in BOOLEAN :
           process_verification_begin(s, <<ApplicantEmail>>, found)
    \/ \E s \in Session :
           current_version \in DOMAIN keys /\ process_verification_sign(s)
    \/ \E s \in Session : process_verification_check(s)
    \/ \E s \in Session : sign_blinded_request_no_key(s)

SpecRace == RaceInit /\ [][RaceNext]_vars

(***************************************************************************)
(* SpecWriters: register_incident_batch running in the threads of two      *)
(* modules, statement by statement, with no rotation.  save_db is          *)
(*     with open(self.current_db_path, 'w') as f:                          *)
(*         json.dump(self._ledger, f, indent=4)                            *)
(* open truncates the file; json.dump writes the text of the ledger as it  *)
(* is then into the buffer of f; leaving the with block flushes the buffer *)
(* to the file from offset 0.  Each thread has its own f.                  *)
(***************************************************************************)
\* the key under which the model marks a file that is no JSON document
NotJson == <<"~">>

\* the length of a file's text, in ledger entries
Size(file) == Cardinality(DOMAIN file \ {NotJson})

\* the file after a buffer is flushed over it from offset 0: the buffer, if
\* it is at least as long as what the file holds; else the buffer followed
\* by the rest of the longer text, which is no JSON document
FlushOver(buffer, file) ==
    IF Size(file) <= Size(buffer) THEN buffer
    ELSE Put(file, NotJson, [written_over_by |-> buffer])

\* register_incident_batch: the loop "self._ledger[sig] = ..."
register_store(s) ==
    /\ pc[s] = "ingest"
    /\ job[s].work = <<>>
    /\ ledger' = StoreBatch(ledger, job[s].data_to_finalize)
    /\ pc' = [pc EXCEPT ![s] = "save_db_open"]
    /\ UNCHANGED <<current_version, keys, keysFile, clients, clientsFile,
                   ledgerFiles>>
    /\ UNCHANGED <<modules, job, runs, ingestLog, oprf, nrm>>

\* save_db: open(self.current_db_path, 'w')
save_db_open(s) ==
    /\ pc[s] = "save_db_open"
    /\ ledgerFiles' = Put(ledgerFiles, current_version, EmptyDict)
    /\ pc' = [pc EXCEPT ![s] = "save_db_dump"]
    /\ UNCHANGED <<current_version, keys, keysFile, clients, clientsFile,
                   ledger>>
    /\ UNCHANGED <<modules, job, runs, ingestLog, oprf, nrm>>

\* save_db: json.dump(self._ledger, f, indent=4)
save_db_dump(s) ==
    /\ pc[s] = "save_db_dump"
    /\ job' = [job EXCEPT ![s] = [buffer |-> ledger] @@ @]
    /\ pc' = [pc EXCEPT ![s] = "save_db_close"]
    /\ UNCHANGED <<nodeVars, modules, runs, ingestLog, oprf, nrm>>

\* save_db: the end of the with block
save_db_close(s) ==
    /\ pc[s] = "save_db_close"
    /\ ledgerFiles' = Put(ledgerFiles, current_version,
                          FlushOver(job[s].buffer,
                                    ledgerFiles[current_version]))
    /\ pc' = [pc EXCEPT ![s] = "sync"]
    /\ UNCHANGED <<current_version, keys, keysFile, clients, clientsFile,
                   ledger>>
    /\ UNCHANGED <<modules, job, runs, ingestLog, oprf, nrm>>

\* register_incident_batch: update_sync_status, and the call returns
register_sync(s) ==
    /\ pc[s] = "sync"
    /\ clients' = update_sync_status(modules[s].api_key, current_version)
    /\ clientsFile' = IF modules[s].api_key \in DOMAIN clients THEN clients'
                      ELSE clientsFile
    /\ UNCHANGED <<current_version, keys, keysFile, ledger, ledgerFiles>>
    /\ IngestionOver(s)

WritersInit == Init

WritersNext ==
    \/ \E s \in Session, raw_data \in {<<FraudEmail>>, <<FraudName>>},
          found \in BOOLEAN : process_ingestion_begin(s, raw_data, found)
    \/ \E s \in Session : process_ingestion_sign(s)
    \/ \E s \in Session : register_store(s)
    \/ \E s \in Session : save_db_open(s)
    \/ \E s \in Session : save_db_dump(s)
    \/ \E s \in Session : save_db_close(s)
    \/ \E s \in Session : register_sync(s)

SpecWriters == WritersInit /\ [][WritersNext]_vars

(***************************************************************************)
(* SpecDirect: ingestion by callers that may not be registered.  No bank   *)
(* is registered at first; create_api_key registers them while the modules *)
(* run process_ingestion and while callers holding the node call           *)
(* register_incident_batch themselves, with the API key of a module and a  *)
(* batch of their own making.                                              *)
(***************************************************************************)
\* batch_data of a direct call: no item, or one item
DirectBatches ==
    {<<>>,
     <<[signature |-> Hex(5), risk |-> "MONEY_LAUNDERING",
        role |-> "PERPETRATOR", key_version |-> 1]>>}

\* a caller makes up the batch_data it will hand to register_incident_batch
register_direct_begin(s, batch_data) ==
    /\ pc[s] = "idle"
    /\ pc' = [pc EXCEPT ![s] = "direct"]
    /\ job' = [job EXCEPT ![s] = [call |-> "direct", batch_data |-> batch_data]]
    /\ UNCHANGED <<nodeVars, modules, runs, ingestLog, oprf, nrm>>

\* server_node.register_incident_batch(api_key, batch_data), called without
\* process_ingestion
register_direct_call(s) ==
    /\ pc[s] = "direct"
    /\ register_incident_batch(modules[s].api_key, job[s].batch_data)
    /\ pc' = [pc EXCEPT ![s] = "idle"]
    /\ job' = [job EXCEPT ![s] = [call |-> "none"]]
    /\ UNCHANGED <<modules, runs, ingestLog, oprf, nrm>>

DirectInit ==
    Constructed(EmptyDict, [s \in Session |-> IF s = "s1" THEN {3} ELSE {7}])

DirectNext ==
    \/ \E bank_name \in BankNames : create_api_key(bank_name)
    \/ rotate_server
    \/ \E s \in Session, found \in BOOLEAN :
           process_ingestion_begin(s, <<FraudEmail>>, found)
    \/ \E s \in Session : process_ingestion_sign(s)
    \/ \E s \in Session : process_ingestion_register(s)
    \/ \E s \in Session, batch_data \in DirectBatches :
           register_direct_begin(s, batch_data)
    \/ \E s \in Session : register_direct_call(s)

SpecDirect == DirectInit /\ [][DirectNext]_vars

(***************************************************************************)
(* Properties                                                              *)
(***************************************************************************)
\* process_verification's call of check_status_batch by instance s
CheckStep(s) == pc[s] = "verify" /\ pc'[s] = "idle"

\* process_ingestion's call of register_incident_batch by instance s
RegisterStep(s) == pc[s] = "ingest" /\ pc'[s] = "idle"

\* the OpaqueSignature of a normalized attribute under a secret
OpaqueSignature(attr, secret) == Hex(mod_pow(map_string_to_group(attr), secret))

\* The assumption that stands for "with overwhelming probability": among the
\* attributes attrs and the versions so far, two OPRF outputs are equal only
\* if they are of the same field element under the same version.
NoCollision(attrs) ==
    \A a \in attrs, b \in attrs, v \in 1..current_version,
       w \in 1..current_version :
        (map_string_to_group(a) # map_string_to_group(b) \/ v # w)
            => OpaqueSignature(a, keys[v]) # OpaqueSignature(b, keys[w])

\* the attributes that were ingested or that instance s has signed
AttrsInPlay(s) ==
    {e.attr : e \in ingestLog} \cup {q.attr : q \in Range(job[s].trail)}

\* C1 (rotation invalidation): when check_status_batch is called with a
\* signature of attribute A that was computed under the current version, A
\* was ingested with a signature of an earlier version, nothing signed under
\* the current version has been ingested, and OPRF outputs do not collide,
\* the answer for that signature is CLEAN.
C1_RotationInvalidation ==
    [][\A s \in Session :
          CheckStep(s) =>
            \A i \in 1..Len(job[s].trail) :
                ( /\ job[s].trail[i].key_version = current_version
                  /\ \E e \in ingestLog :
                        /\ e.attr = job[s].trail[i].attr
                        /\ e.key_version < current_version
                  /\ \A e \in ingestLog : e.key_version < current_version
                  /\ NoCollision(AttrsInPlay(s)) )
                => job'[s].results[job[s].signatures_to_check[i]].status
                       = "CLEAN"]_vars

C1_Witness ==
    \E s \in Session :
        /\ job[s].call = "verified"
        /\ current_version = 2
        /\ \E i \in 1..Len(job[s].trail) :
              /\ job[s].trail[i].key_version = 2
              /\ job[s].results[job[s].signatures_to_check[i]].status = "CLEAN"
              /\ \E e \in ingestLog :
                    /\ e.attr = job[s].trail[i].attr
                    /\ e.key_version = 1
                    /\ e.ledger = 1
        /\ \A e \in ingestLog : e.key_version < 2
        /\ NoCollision(AttrsInPlay(s))

\* C2 (staleness detection): a rotation leaves every registered client
\* OUTDATED; a client stops being OUTDATED only by its own completed
\* register_incident_batch, which makes it OK; and a client stops being OK
\* only by a rotation.
C2_StalenessDetection ==
    [][/\ current_version' # current_version =>
            \A k \in DOMAIN clients' : authenticate(k)' = "OUTDATED"
       /\ \A k \in DOMAIN clients :
            (authenticate(k) = "OUTDATED" /\ authenticate(k)' # "OUTDATED")
                => /\ \E s \in Session :
                        RegisterStep(s) /\ modules[s].api_key = k
                   /\ authenticate(k)' = "OK"
       /\ \A k \in DOMAIN clients :
            (authenticate(k) = "OK" /\ authenticate(k)' # "OK")
                => current_version' = current_version + 1
       /\ \A s \in Session :
            (RegisterStep(s) /\ modules[s].api_key \in DOMAIN clients)
                => authenticate(modules[s].api_key)' = "OK"]_vars

C2_Witness ==
    \E k \in DOMAIN clients :
        /\ clients[k].last_sync_version = 1
        /\ current_version = 2
        /\ authenticate(k) = "OUTDATED"
        /\ \E e \in ingestLog : e.ledger = 1

\* C3 (end-to-end matching): when check_status_batch is called with a
\* signature computed under the current version (no rotation in between) and
\* OPRF outputs do not collide, then the answer is FOUND with the risk and
\* role of an ingestion of the same NormalizedAttribute, if that attribute
\* was ingested under the current version, and CLEAN, if no ingestion under
\* the current version was of that NormalizedAttribute.
C3_EndToEndMatching ==
    [][\A s \in Session :
          CheckStep(s) =>
            \A i \in 1..Len(job[s].trail) :
                LET q   == job[s].trail[i]
                    res == job'[s].results[job[s].signatures_to_check[i]]
                IN  (q.key_version = current_version
                        /\ NoCollision(AttrsInPlay(s)))
                    => /\ (\E e \in ingestLog :
                              /\ e.attr = q.attr
                              /\ e.key_version = current_version)
                          => /\ res.status = "FOUND"
                             /\ \E e \in ingestLog :
                                   /\ e.attr = q.attr
                                   /\ e.key_version = current_version
                                   /\ res.data.risk = e.risk
                                   /\ res.data.role = e.role
                       /\ (\A e \in ingestLog :
                              e.ledger = current_version => e.attr # q.attr)
                          => res.status = "CLEAN"]_vars

\* C4 (ledger/version binding on write): every entry stored in the ledger of
\* version v carries key_version = v.
C4_LedgerVersionBindingOnWrite ==
    /\ \A v \in DOMAIN ledgerFiles :
          \A sig \in DOMAIN ledgerFiles[v] :
              ledgerFiles[v][sig].key_version = v
    /\ \A sig \in DOMAIN ledger : ledger[sig].key_version = current_version

\* C5 (ledger/version binding on read): every signature handed to
\* check_status_batch was signed under the version of the ledger it is looked
\* up in.
C5_LedgerVersionBindingOnRead ==
    [][\A s \in Session :
          CheckStep(s) =>
            \A i \in 1..Len(job[s].trail) :
                job[s].trail[i].key_version = current_version]_vars

\* C6 (round trip): unblinding the signed blinded element gives
\* mod_pow(x, k), for every field element x, blinding factor r and secret k.
C6_RoundTrip ==
    oprf.stage = "unblinded" => oprf.val = mod_pow(oprf.x, oprf.k)

C6_Witness ==
    /\ oprf.stage = "unblinded"
    /\ oprf.x = 2
    /\ oprf.r = 7
    /\ oprf.k = 3
    /\ oprf.val = 8

\* what instance s has had signed: the attribute, the version the server
\* answered and the rendered signature
Signed(s) ==
    IF job[s].call = "ingest"
    THEN {[attr |-> e.attr, key_version |-> e.key_version,
           signature |-> e.signature] : e \in Range(job[s].data_to_finalize)}
    ELSE IF job[s].call \in {"verify", "verified"}
    THEN {[attr |-> job[s].trail[i].attr,
           key_version |-> job[s].trail[i].key_version,
           signature |-> job[s].signatures_to_check[i]] :
                i \in 1..Len(job[s].trail)}
    ELSE {}

\* C7 (determinism across sessions): whenever two instances, whatever their
\* blinding factors, have had the same normalized attribute signed under the
\* same key version, they hold the same rendered signature.
C7_DeterminismAcrossSessions ==
    \A s \in Session, t \in Session :
        \A a \in Signed(s), b \in Signed(t) :
            (a.attr = b.attr /\ a.key_version = b.key_version)
                => a.signature = b.signature

C7_Witness ==
    \E s \in Session, t \in Session :
        /\ modules[s].blinding_factor # modules[t].blinding_factor
        /\ \E a \in Signed(s), b \in Signed(t) :
              /\ a.attr = b.attr
              /\ a.key_version = b.key_version
              /\ keys[a.key_version] = 3
              /\ a.signature = OpaqueSignature(a.attr, 3)
              /\ b.signature = a.signature

\* C8 as stated (normalisation idempotence): normalize_input applied to its
\* own result gives that result, for every kind and raw value.
C8_Idempotence ==
    nrm.stage = "renormalized" => nrm.twice = nrm.once

\* C8 (normalisation idempotence, amended): normalize_input is idempotent for
\* phone and sin, and wherever its result is None; for every kind,
\* normalizing the non-empty canonical value of a result gives that result
\* again; for email and name, normalizing a result puts a second kind tag in
\* front of it.
C8_IdempotenceOnCanonical ==
    nrm.stage = "renormalized" =>
        /\ nrm.once = None => nrm.twice = None
        /\ nrm.kind \in {"phone", "sin"} => nrm.twice = nrm.once
        /\ (nrm.once # None /\ Canonical(nrm.kind, nrm.once) # <<>>)
              => nrm.recanon = nrm.once
        /\ (nrm.once # None /\ nrm.kind \in {"email", "name"})
              => nrm.twice = KindText(nrm.kind) \o <<":">> \o nrm.once

C8_Witness ==
    /\ nrm.stage = "renormalized"
    /\ nrm.kind = "phone"
    /\ nrm.raw = <<"1", "-", "1">>
    /\ nrm.once = <<"p", "h", "o", "n", "e", ":", "1", "1">>
    /\ nrm.twice = nrm.once
    /\ nrm.recanon = nrm.once

\* C9 (cross-kind non-collision): the same raw text normalized under two
\* different kinds never gives the same string to the hash, and so (the hash
\* being one-to-one on what it is given) never the same field element.
C9_CrossKindNonCollision ==
    (nrm.stage = "cleaned" /\ nrm.kind # nrm.kind2) =>
        /\ nrm.pre # nrm.pre2
        /\ (InHashTable(nrm.pre) /\ InHashTable(nrm.pre2))
              => map_string_to_group(nrm.once) # map_string_to_group(nrm.once2)

C9_Witness ==
    /\ nrm.stage = "cleaned"
    /\ nrm.kind = "phone"
    /\ nrm.kind2 = "sin"
    /\ nrm.raw = <<"1">>
    /\ nrm.pre = <<"p", "h", "o", "n", "e", ":", "1">>
    /\ nrm.pre2 = <<"s", "i", "n", ":", "1">>
    /\ map_string_to_group(nrm.once) # map_string_to_group(nrm.once2)

\* a NormalizedAttribute whose canonical value is the empty string
EmptyAttribute(attr) == \E k \in Kinds : attr = KindText(k) \o <<":">>

\* C10 (empty attributes are never hashed): no signature that an instance
\* has had made, and no ingested entry, is of an attribute whose canonical
\* value is the empty string.
C10_EmptyNeverHashed ==
    /\ \A s \in Session : \A a \in Signed(s) : ~EmptyAttribute(a.attr)
    /\ \A e \in ingestLog : ~EmptyAttribute(e.attr)

\* C11 (client sync state lifecycle): a client record is created with
\* last_sync_version = 0; a completed register_incident_batch of a
\* registered key sets its last_sync_version to the current version; no step
\* removes a client or lowers its last_sync_version; and no
\* last_sync_version exceeds the current version.
C11_SyncLifecycle ==
    [][/\ \A k \in DOMAIN clients' \ DOMAIN clients :
              clients'[k].last_sync_version = 0
       /\ \A s \in Session :
              (RegisterStep(s) /\ modules[s].api_key \in DOMAIN clients)
                  => clients'[modules[s].api_key].last_sync_version
                         = current_version'
       /\ \A k \in DOMAIN clients :
              /\ k \in DOMAIN clients'
              /\ clients'[k].last_sync_version >= clients[k].last_sync_version
       /\ \A k \in DOMAIN clients' :
              clients'[k].last_sync_version <= current_version']_vars

C11_Witness ==
    /\ current_version = 2
    /\ \E k \in DOMAIN clients, j \in DOMAIN clients :
          /\ clients[k].last_sync_version = 2
          /\ clients[j].last_sync_version = 0
    /\ \E e \in ingestLog : e.ledger = 1
    /\ \E e \in ingestLog : e.ledger = 2

\* C12 (rotation archives the previous ledger): a rotation makes the active
\* ledger a new empty store, in memory and on file, and leaves the file of
\* every version there was as it is; no step changes the file of a version
\* earlier than the current one; and check_status_batch answers from the
\* store of the current version only.
C12_RotationArchives ==
    [][/\ current_version' # current_version =>
            /\ ledger' = EmptyDict
            /\ ledgerFiles'[current_version'] = EmptyDict
            /\ \A v \in DOMAIN ledgerFiles : ledgerFiles'[v] = ledgerFiles[v]
       /\ \A v \in DOMAIN ledgerFiles :
            v < current_version => ledgerFiles'[v] = ledgerFiles[v]
       /\ \A s \in Session :
            CheckStep(s) =>
              \A sig \in Range(job[s].signatures_to_check) :
                 LET res == job'[s].results[sig]
                     now == ledgerFiles[current_version]
                 IN  IF sig \in DOMAIN now
                     THEN res.status = "FOUND" /\ res.data = now[sig]
                     ELSE res.status = "CLEAN"]_vars

C12_Witness ==
    /\ current_version = 2
    /\ \E s \in Session :
          /\ job[s].call = "verified"
          /\ \E sig \in Range(job[s].signatures_to_check) :
                /\ sig \in DOMAIN ledgerFiles[1]
                /\ sig \notin DOMAIN ledgerFiles[2]
                /\ job[s].results[sig].status = "CLEAN"

\* the attribute kinds of applicant i whose signature check_status_batch
\* reported FOUND in the finished verification of instance s
MatchedKinds(s, i) ==
    LET work == Worklist(job[s].data, 1)
    IN  {work[j].field : j \in {n \in 1..Len(work) :
            /\ work[n].index = i
            /\ job[s].results[job[s].signatures_to_check[n]].status = "FOUND"}}

\* C13 (per-applicant alert reconstruction): after process_verification,
\* every applicant with an attribute reported FOUND is printed with an alert
\* for each such attribute kind, and every other applicant is printed as
\* passing.
C13_AlertReconstruction ==
    \A s \in Session :
        job[s].call = "verified" =>
            \A i \in 1..Len(job[s].data) :
                IF MatchedKinds(s, i) # {}
                THEN /\ job[s].printed[i].line = "ALERT"
                     /\ {a.field : a \in Range(job[s].printed[i].alerts)}
                            = MatchedKinds(s, i)
                ELSE job[s].printed[i].line = "PASS"

\* C14 (persistence failure aborts without divergence): whatever writes have
\* failed, the in-memory state is the persisted state: the key file holds
\* current_version and the key map, the client file holds the client map,
\* and the ledger file of the current version holds the active ledger.
C14_NoDivergence ==
    /\ keysFile = [current_version |-> current_version, keys |-> keys]
    /\ clientsFile = clients
    /\ current_version \in DOMAIN ledgerFiles
    /\ ledgerFiles[current_version] = ledger

\* a step of a module's call: one of the node's API methods runs
ApiStep == \E s \in Session : pc'[s] # pc[s] \/ job'[s] # job[s]

\* C15 (rotation is exclusive): no API method runs while rotate_server is
\* between its statements; in particular none runs while current_version
\* has no secret yet, and none while current_version is the new version but
\* the in-memory ledger is still the old one.
C15_RotationExclusive ==
    [][ApiStep =>
          /\ pc["node"] = "idle"
          /\ current_version \in DOMAIN keys
          /\ pc["node"] # "rotate_ledger"]_vars

\* store holds, under the signature of the ingested entry e, the entry of an
\* ingestion of that signature
HoldsEntry(store, e) ==
    LET sig == OpaqueSignature(e.attr, keys[e.key_version])
    IN  /\ sig \in DOMAIN store
        /\ \E d \in ingestLog :
              /\ OpaqueSignature(d.attr, keys[d.key_version]) = sig
              /\ store[sig] = [risk |-> d.risk, role |-> d.role,
                               key_version |-> d.key_version]

\* C16 (no lost updates under concurrent ingestion): once no call is in
\* progress, the in-memory ledger and the ledger file of the current version
\* both hold every entry that was ingested into the ledger of the current
\* version (for a signature of several ingestions, the entry of one of
\* them), and the file is a JSON document.
C16_NoLostUpdates ==
    (\A s \in Session : pc[s] = "idle") =>
        /\ NotJson \notin DOMAIN ledgerFiles[current_version]
        /\ \A e \in ingestLog :
              e.ledger = current_version =>
                  /\ HoldsEntry(ledger, e)
                  /\ HoldsEntry(ledgerFiles[current_version], e)

\* C17 (secret range): the secret of every key version is an integer k with
\* 1 <= k < phi.
C17_SecretRange ==
    \A v \in DOMAIN keys : 1 <= keys[v] /\ keys[v] < phi

\* C18 (version counter and key history): the node starts at version 1; a
\* step that changes current_version increases it by exactly 1 (the value
\* rotate returns is the new current_version); there is a secret for every
\* version 1..current_version; what sign_blinded_request answers is signed
\* with the secret of current_version and carries that version; and the
\* secret of a version is never changed or removed.
C18_VersionCounterAndKeyHistory ==
    /\ current_version = 1
    /\ [](DOMAIN keys = 1..current_version)
    /\ [][/\ current_version' # current_version
                => current_version' = current_version + 1
          /\ \A v \in DOMAIN keys : v \in DOMAIN keys' /\ keys'[v] = keys[v]
          /\ \A s \in Session :
                \A a \in Signed(s)' \ Signed(s) :
                   /\ a.key_version = current_version
                   /\ a.signature
                         = OpaqueSignature(a.attr, keys[current_version])]_vars

C18_Witness ==
    /\ current_version = 2
    /\ keys[1] # keys[2]
    /\ \E e \in ingestLog : e.key_version = 1
    /\ \E s \in Session : \E a \in Signed(s) :
          /\ a.key_version = 2
          /\ a.signature = OpaqueSignature(a.attr, keys[2])
          /\ a.signature # OpaqueSignature(a.attr, keys[1])

\* a step in which a module calls authenticate: the start of
\* process_ingestion (line 58) or of process_verification
\* (_check_server_health)
AuthenticateStep == runs' # runs

\* C19 (authentication verdict): for every API key, authenticate answers
\* ERROR iff the key is not in the registry, OUTDATED iff it is registered
\* with last_sync_version below the current version, and OK otherwise; and a
\* call of authenticate changes no key, registry or ledger state.
C19_AuthenticationVerdict ==
    /\ [](\A k \in ApiKeys :
            /\ authenticate(k) = "ERROR" <=> k \notin DOMAIN clients
            /\ authenticate(k) = "OUTDATED" <=>
                  /\ k \in DOMAIN clients
                  /\ clients[k].last_sync_version < current_version
            /\ authenticate(k) = "OK" <=>
                  /\ k \in DOMAIN clients
                  /\ clients[k].last_sync_version >= current_version)
    /\ [][AuthenticateStep => UNCHANGED nodeVars]_vars

C19_Witness ==
    /\ current_version = 2
    /\ \E k \in ApiKeys, j \in ApiKeys, s \in Session :
          /\ authenticate(k) = "ERROR"
          /\ authenticate(j) = "OUTDATED"
          /\ clients[j].last_sync_version = 1
          /\ modules[s].api_key = k
          /\ job[s].call = "verified"

\* a step in which a module calls sign_blinded_request
SignStep(s) ==
    /\ pc[s] \in {"ingest", "verify"}
    /\ pc'[s] = pc[s]
    /\ job'[s] # job[s]

\* C20 (ledgers are written only via ingestion and never lose entries):
\* authenticate, sign_blinded_request and check_status_batch leave the key
\* state, the registry and every ledger unchanged; register_incident_batch
\* changes nothing but the entries of the active ledger under the signatures
\* of its batch and the caller's last_sync_version; and no step removes an
\* entry from the ledger of any version.
C20_WrittenOnlyViaIngestion ==
    [][/\ \A s \in Session :
            (AuthenticateStep \/ SignStep(s) \/ CheckStep(s))
                => UNCHANGED nodeVars
       /\ \A s \in Session :
            RegisterStep(s) =>
              LET batch == Range(job[s].data_to_finalize)
                  sigs  == {item.signature : item \in batch}
              IN  /\ UNCHANGED <<current_version, keys, keysFile>>
                  /\ DOMAIN ledger' = DOMAIN ledger \cup sigs
                  /\ \A sig \in DOMAIN ledger \ sigs :
                        ledger'[sig] = ledger[sig]
                  /\ \A sig \in sigs : \E item \in batch :
                        /\ item.signature = sig
                        /\ ledger'[sig] = [risk |-> item.risk,
                                           role |-> item.role,
                                           key_version |-> item.key_version]
                  /\ ledgerFiles'[current_version] = ledger'
                  /\ \A v \in DOMAIN ledgerFiles \ {current_version} :
                        ledgerFiles'[v] = ledgerFiles[v]
                  /\ DOMAIN clients' = DOMAIN clients
                  /\ \A k \in DOMAIN clients :
                        /\ clients'[k].name = clients[k].name
                        /\ k # modules[s].api_key => clients'[k] = clients[k]
       /\ \A v \in DOMAIN ledgerFiles :
            /\ v \in DOMAIN ledgerFiles'
            /\ DOMAIN ledgerFiles[v] \subseteq DOMAIN ledgerFiles'[v]]_vars

C20_Witness ==
    /\ current_version = 1
    /\ Cardinality(DOMAIN ledger) = 2
    /\ ledgerFiles[1] = ledger
    /\ \E e \in ingestLog, d \in ingestLog : e.attr # d.attr


\* C21 (the field element is a hash of the NormalizedAttribute itself): two
\* different NormalizedAttribute strings never reach the hash function as
\* the same pre-image, and so (the hash being one-to-one on what it is
\* given) never get the same field element.
C21_HashOfAttributeItself ==
    (nrm.stage = "pair_cleaned" /\ nrm.once # nrm.once2) =>
        /\ nrm.pre # nrm.pre2
        /\ (InHashTable(nrm.pre) /\ InHashTable(nrm.pre2))
              => map_string_to_group(nrm.once) # map_string_to_group(nrm.once2)


\* a direct call of register_incident_batch with the API key of instance s
DirectRegisterStep(s) == pc[s] = "direct" /\ pc'[s] = "idle"

\* C22 (only registered clients can write to the ledger): a module whose API
\* key is not in the registry never gets past process_ingestion's
\* authentication, and an ingestion attempted with such a key, through
\* process_ingestion or by a direct call of register_incident_batch, leaves
\* the active ledger, every archived ledger and the client registry
\* unchanged.
C22_OnlyRegisteredWrite ==
    /\ [](\A s \in Session :
            pc[s] = "ingest" => modules[s].api_key \in DOMAIN clients)
    /\ [][\A s \in Session :
            ((RegisterStep(s) \/ DirectRegisterStep(s))
                /\ modules[s].api_key \notin DOMAIN clients)
            => UNCHANGED <<ledger, ledgerFiles, clients, clientsFile>>]_vars

=============================================================================
